---- MODULE Spec2Model ----
(***************************************************************************)
(* Data Quality Monitor (src/quality_monitor.py): the rule engine          *)
(* run_quality_checks, its five checkers and the column profiler, over a   *)
(* SQLite database modelled as tables of rows of storage-class values.     *)
(***************************************************************************)
EXTENDS Integers, Sequences, FiniteSets, TLC

(***************************************************************************)
(* Bounds of the model.                                                    *)
(***************************************************************************)
MaxRows == 3        \* rows of an enumerated source column
MaxRefRows == 1     \* rows of an enumerated reference column
MaxRules == 2       \* rules in quality_rules
MaxSample == 2      \* sample rows load_sample_data generates for a table
MaxElapsed == 3     \* time units a checker call is followed for
MaxCount == 20      \* rows up to which the rounding of a percentage is tabulated

(***************************************************************************)
(* SQLite values: NULL, INTEGER and TEXT storage classes.  A text is a     *)
(* sequence of one-character strings.                                      *)
(***************************************************************************)
NULL == [t |-> "null", n |-> 0, s |-> <<>>]
IntV(n) == [t |-> "int", n |-> n, s |-> <<>>]
TextV(s) == [t |-> "text", n |-> 0, s |-> s]

IsNull(v) == v.t = "null"

\* The characters of the model, in ascending code-point order.
CharOrder == <<"-", "0", "1", "2", "3", "4", "5", "6", "7", "8", "9", "@", "a", "b", "c">>
Ord(c) == CHOOSE i \in 1..Len(CharOrder) : CharOrder[i] = c
Digits == {"0", "1", "2", "3", "4", "5", "6", "7", "8", "9"}
DigitChar(d) == CharOrder[d + 2]
DigitVal(c) == Ord(c) - 2

\* str(n) of a Python int.
RECURSIVE NatStr(_)
NatStr(n) == IF n < 10 THEN <<DigitChar(n)>> ELSE Append(NatStr(n \div 10), DigitChar(n % 10))
IntStr(n) == IF n < 0 THEN <<"-">> \o NatStr(0 - n) ELSE NatStr(n)

\* str(value[0]) of a fetched cell.
PyStr(v) == IF v.t = "int" THEN IntStr(v.n) ELSE v.s

\* memcmp order of two texts (SQLite's BINARY collation).
RECURSIVE TextLess(_, _)
TextLess(a, b) ==
    IF b = <<>> THEN FALSE
    ELSE IF a = <<>> THEN TRUE
    ELSE IF Ord(Head(a)) # Ord(Head(b)) THEN Ord(Head(a)) < Ord(Head(b))
    ELSE TextLess(Tail(a), Tail(b))

\* A text that SQLite's numeric affinity converts to an integer.
RECURSIVE DigitsVal(_, _)
DigitsVal(s, acc) == IF s = <<>> THEN acc ELSE DigitsVal(Tail(s), acc * 10 + DigitVal(Head(s)))
AllDigits(s) == s # <<>> /\ \A i \in 1..Len(s) : s[i] \in Digits
LooksInteger(s) == AllDigits(s) \/ (s # <<>> /\ Head(s) = "-" /\ AllDigits(Tail(s)))
TextToInt(s) == IF Head(s) = "-" THEN 0 - DigitsVal(Tail(s), 0) ELSE DigitsVal(s, 0)

\* Column affinity of a declared type (SQLite's rules on the type name).
Affinity(data_type) ==
    CASE data_type = "INTEGER" -> "NUMERIC"
      [] data_type = "REAL" -> "NUMERIC"
      [] data_type = "DECIMAL" -> "NUMERIC"
      [] data_type = "DECIMAL(10,2)" -> "NUMERIC"
      [] data_type = "DATE" -> "NUMERIC"
      [] data_type = "TEXT" -> "TEXT"
      [] OTHER -> "NONE"

\* A value after the affinity of the other operand of a comparison is applied.
ApplyAffinity(v, aff) ==
    CASE aff = "NUMERIC" /\ v.t = "text" /\ LooksInteger(v.s) -> IntV(TextToInt(v.s))
      [] aff = "TEXT" /\ v.t = "int" -> TextV(IntStr(v.n))
      [] OTHER -> v

\* a < b and a = b on two non-null values of the same or different storage
\* classes: every INTEGER sorts before every TEXT.
ValLess(a, b) ==
    CASE a.t = "int" /\ b.t = "int" -> a.n < b.n
      [] a.t = "int" /\ b.t = "text" -> TRUE
      [] a.t = "text" /\ b.t = "int" -> FALSE
      [] OTHER -> TextLess(a.s, b.s)
ValEq(a, b) == a.t = b.t /\ a.n = b.n /\ a.s = b.s

\* column < ? and column > ? with a bound parameter (no affinity of its own):
\* NULL on either side is not true.
ColLessEqParam(v, aff, p) ==
    ~IsNull(v) /\ ~IsNull(p) /\ ~ValLess(ApplyAffinity(p, aff), v)
ColLessParam(v, aff, p) ==
    ~IsNull(v) /\ ~IsNull(p) /\ ValLess(v, ApplyAffinity(p, aff))
ColGreaterParam(v, aff, p) ==
    ~IsNull(v) /\ ~IsNull(p) /\ ValLess(ApplyAffinity(p, aff), v)

\* t.column = r.column between two columns.
ColEqCol(a, affA, b, affB) ==
    /\ ~IsNull(a) /\ ~IsNull(b)
    /\ IF affA = "NUMERIC" /\ affB # "NUMERIC" THEN ValEq(a, ApplyAffinity(b, "NUMERIC"))
       ELSE IF affB = "NUMERIC" /\ affA # "NUMERIC" THEN ValEq(ApplyAffinity(a, "NUMERIC"), b)
       ELSE ValEq(a, b)

\* column = '' and column != ''.
IsEmptyText(v) == v.t = "text" /\ v.s = <<>>
IsNullOrEmpty(v) == IsNull(v) \/ IsEmptyText(v)

(***************************************************************************)
(* A database: table name -> [columns, rows]; a row maps each column name  *)
(* to a value.                                                             *)
(***************************************************************************)
ColumnNames(tbl) == {tbl.columns[i].name : i \in 1..Len(tbl.columns)}
ColumnType(tbl, column_name) ==
    LET i == CHOOSE j \in 1..Len(tbl.columns) : tbl.columns[j].name = column_name
    IN  tbl.columns[i].data_type
ColumnAffinity(tbl, column_name) == Affinity(ColumnType(tbl, column_name))

\* The values of a column in row order.
ColumnValues(tbl, column_name) == [i \in 1..Len(tbl.rows) |-> tbl.rows[i][column_name]]

\* Number of positions of a sequence that satisfy a predicate.
CountIf(seq, P(_)) == Cardinality({i \in 1..Len(seq) : P(seq[i])})

\* COUNT(DISTINCT column) over the non-null values.
CountDistinctWithNull(vals) == Cardinality({vals[i] : i \in 1..Len(vals)})
CountDistinct(vals) == Cardinality({vals[i] : i \in {j \in 1..Len(vals) : ~IsNull(vals[j])}})

(***************************************************************************)
(* Python values of the engine: None, percentages, regular expressions,    *)
(* rule configurations.                                                    *)
(***************************************************************************)
PyNone == "<None>"

\* Python floats are binary64: a significand of 53 bits, results rounded to
\* nearest, ties to even.  A significand is a natural number written in base
\* 2^15, the most significant digit first.
Precision == 53
LimbBits == 15
Limb == 2 ^ LimbBits

RECURSIVE NatLimbs(_)
NatLimbs(n) == IF n = 0 THEN <<>> ELSE Append(NatLimbs(n \div Limb), n % Limb)
RECURSIVE StripLimbs(_)
StripLimbs(x) == IF x # <<>> /\ Head(x) = 0 THEN StripLimbs(Tail(x)) ELSE x
\* 2^e
Pow2Limbs(e) == <<2 ^ (e % LimbBits)>> \o [i \in 1..(e \div LimbBits) |-> 0]
\* x + 1
RECURSIVE IncLimbs(_)
IncLimbs(x) ==
    IF x = <<>> THEN <<1>>
    ELSE IF x[Len(x)] < Limb - 1 THEN [x EXCEPT ![Len(x)] = @ + 1]
    ELSE Append(IncLimbs(SubSeq(x, 1, Len(x) - 1)), 0)
\* x * c for a natural c < 2^15
RECURSIVE MulFrom(_, _, _, _)
MulFrom(x, c, i, carry) ==
    IF i = 0 THEN NatLimbs(carry)
    ELSE LET acc == x[i] * c + carry
         IN  Append(MulFrom(x, c, i - 1, acc \div Limb), acc % Limb)
MulLimbs(x, c) == StripLimbs(MulFrom(x, c, Len(x), 0))
\* x \div c and x % c for a natural 0 < c < 2^15
RECURSIVE DivFrom(_, _, _)
DivFrom(x, c, rem) ==
    IF x = <<>> THEN <<>>
    ELSE LET acc == rem * Limb + Head(x)
         IN  <<acc \div c>> \o DivFrom(Tail(x), c, acc % c)
DivLimbs(x, c) == StripLimbs(DivFrom(x, c, 0))
RECURSIVE ModFrom(_, _, _)
ModFrom(x, c, rem) ==
    IF x = <<>> THEN rem ELSE ModFrom(Tail(x), c, (rem * Limb + Head(x)) % c)
ModLimbs(x, c) == ModFrom(x, c, 0)
\* The number of bits of x > 0.
BitLength(x) ==
    LimbBits * (Len(x) - 1) + (CHOOSE k \in 1..LimbBits : 2 ^ (k - 1) <= x[1] /\ x[1] < 2 ^ k)
IsOddLimbs(x) == x[Len(x)] % 2 = 1
\* -1, 0 or 1 as x is less than, equal to or greater than y.
RECURSIVE CmpSameLen(_, _)
CmpSameLen(x, y) ==
    IF x = <<>> THEN 0
    ELSE IF Head(x) # Head(y) THEN (IF Head(x) < Head(y) THEN 0 - 1 ELSE 1)
    ELSE CmpSameLen(Tail(x), Tail(y))
CmpLimbs(x, y) ==
    IF Len(x) # Len(y) THEN (IF Len(x) < Len(y) THEN 0 - 1 ELSE 1) ELSE CmpSameLen(x, y)

\* The number of zero bits the binary expansion of r / d starts with after
\* the point, for 0 < r < d.
RECURSIVE LeadingZeros(_, _)
LeadingZeros(r, d) == IF 2 * r >= d THEN 0 ELSE 1 + LeadingZeros(2 * r, d)

\* count / total for count > 0 and total > 0: the float m * 2^(-scale)
\* nearest to the quotient.
FloatDiv(count, total) ==
    IF count % total = 0 THEN [m |-> NatLimbs(count \div total), scale |-> 0]
    ELSE LET scale == IF count < total THEN LeadingZeros(count, total) + Precision
                      ELSE Precision - BitLength(NatLimbs(count \div total))
             x == MulLimbs(Pow2Limbs(scale), count)
             m == DivLimbs(x, total)
             r == ModLimbs(x, total)
             up == 2 * r > total \/ (2 * r = total /\ IsOddLimbs(m))
         IN  [m |-> IF up THEN IncLimbs(m) ELSE m, scale |-> scale]

\* q * 100 for the float q: the float m * 2^(shift - scale) nearest to the
\* product.
FloatMul100(q) ==
    LET x == MulLimbs(q.m, 100)
        cut == BitLength(x) - Precision
        m == DivLimbs(x, 2 ^ cut)
        r == ModLimbs(x, 2 ^ cut)
        up == 2 * r > 2 ^ cut \/ (2 * r = 2 ^ cut /\ IsOddLimbs(m))
    IN  IF cut <= 0 THEN [m |-> x, shift |-> 0, scale |-> q.scale]
        ELSE [m |-> IF up THEN IncLimbs(m) ELSE m, shift |-> cut, scale |-> q.scale]

\* How count / total * 100 as Python computes it compares with the number
\* 100 * count / total: -1 below it, 0 equal to it, 1 above it.
RoundingError(count, total) ==
    IF count = 0 THEN 0
    ELSE LET f == FloatMul100(FloatDiv(count, total))
         IN  CmpLimbs(MulLimbs(MulLimbs(f.m, 2 ^ f.shift), total),
                      MulLimbs(MulLimbs(Pow2Limbs(f.scale), 100), count))

\* RoundingError for the totals up to MaxCount, computed once.
RoundingErrors ==
    [total \in 1..MaxCount |-> [count \in 0..total |-> RoundingError(count, total)]]
RoundingOf(count, total) ==
    IF total <= MaxCount /\ count <= total THEN RoundingErrors[total][count]
    ELSE RoundingError(count, total)

\* A percentage count / total * 100: the float that lies err (0: not at all)
\* above the fraction num / den.
Zero == [num |-> 0, den |-> 1, err |-> 0]
PercentageOfNothing(count, total) ==
    IF total > 0
    THEN [num |-> count * 100, den |-> total, err |-> RoundingOf(count, total)]
    ELSE [num |-> 100, den |-> 1, err |-> 0]
Percentage(count, total) ==
    IF total > 0
    THEN [num |-> count * 100, den |-> total, err |-> RoundingOf(count, total)]
    ELSE Zero
MetricLeq(m, threshold) ==
    m.num < threshold * m.den \/ (m.num = threshold * m.den /\ m.err <= 0)
MetricGeq(m, k) ==
    m.num > k * m.den \/ (m.num = k * m.den /\ m.err >= 0)

\* The text of details: a message with the two counts or the name it shows.
Details(msg, a, b, name) == [msg |-> msg, a |-> a, b |-> b, name |-> name]

\* What a checker call ends with: a returned result, or a raised exception
\* whose str() is details.
Returned(metric_value, status, details) ==
    [exc |-> FALSE, metric_value |-> metric_value, status |-> status, details |-> details]
Raised(details) ==
    [exc |-> TRUE, metric_value |-> Zero, status |-> "", details |-> details]

\* 'PASS' if percentage <= threshold else 'FAIL'
StatusOfLt(percentage, threshold) ==
    IF MetricLeq(percentage, threshold) /\ ~MetricGeq(percentage, threshold) THEN "PASS" ELSE "FAIL"
StatusOf(percentage, threshold) ==
    IF MetricLeq(percentage, threshold) THEN "PASS" ELSE "FAIL"

\* re.compile of the pattern texts of the model: a sequence of character
\* classes, each taken once or one-or-more times, and whether the pattern
\* ends with $.  (Every pattern here starts with ^, which re.match implies.)
RegexCompile(pattern) ==
    CASE pattern = "^[0-9]+$" ->
           [err |-> FALSE, items |-> <<[chars |-> Digits, plus |-> TRUE]>>, dollar |-> TRUE]
      [] pattern = "^[0-9]+" ->
           [err |-> FALSE, items |-> <<[chars |-> Digits, plus |-> TRUE]>>, dollar |-> FALSE]
      [] pattern = "^[a-c]+@[a-c]$" ->
           [err |-> FALSE,
            items |-> <<[chars |-> {"a", "b", "c"}, plus |-> TRUE],
                        [chars |-> {"@"}, plus |-> FALSE],
                        [chars |-> {"a", "b", "c"}, plus |-> FALSE]>>,
            dollar |-> TRUE]
      [] OTHER -> [err |-> TRUE, items |-> <<>>, dollar |-> FALSE]

\* The compiled pattern matches a prefix of s (backtracking over each +),
\* up to the end of s when the pattern ends with $.
RECURSIVE MatchItems(_, _, _)
MatchItems(items, s, dollar) ==
    IF items = <<>> THEN (~dollar \/ s = <<>>)
    ELSE LET it == Head(items) IN
         IF it.plus
         THEN \E k \in 1..Len(s) :
                 /\ \A i \in 1..k : s[i] \in it.chars
                 /\ MatchItems(Tail(items), SubSeq(s, k + 1, Len(s)), dollar)
         ELSE s # <<>> /\ Head(s) \in it.chars /\ MatchItems(Tail(items), Tail(s), dollar)

\* re.match(pattern, string) is not None, for a pattern that compiles.
ReFullMatch(pattern, string) ==
    LET re == RegexCompile(pattern) IN MatchItems(re.items, string, TRUE)
ReMatch(pattern, string) ==
    LET re == RegexCompile(pattern) IN MatchItems(re.items, string, re.dollar)

\* json.loads(rule_config) if rule_config else {} followed by config.get of
\* each key: an absent key is None (min and max: NULL).
NoConfig ==
    [err |-> FALSE, pattern |-> PyNone, min |-> NULL, max |-> NULL,
     reference_table |-> PyNone, reference_column |-> PyNone]
JsonLoads(rule_config) ==
    CASE rule_config = "" -> NoConfig
      [] rule_config = "{}" -> NoConfig
      [] rule_config = "{\"pattern\": \"^[0-9]+$\"}" -> [NoConfig EXCEPT !.pattern = "^[0-9]+$"]
      [] rule_config = "{\"pattern\": \"^[0-9]+\"}" -> [NoConfig EXCEPT !.pattern = "^[0-9]+"]
      [] rule_config = "{\"pattern\": \"^[a-c]+@[a-c]$\"}" -> [NoConfig EXCEPT !.pattern = "^[a-c]+@[a-c]$"]
      [] rule_config = "{\"pattern\": \"[\"}" -> [NoConfig EXCEPT !.pattern = "["]
      [] rule_config = "{\"min\": 0, \"max\": 120}" -> [NoConfig EXCEPT !.min = IntV(0), !.max = IntV(120)]
      [] rule_config = "{\"min\": 0}" -> [NoConfig EXCEPT !.min = IntV(0)]
      [] rule_config = "{\"max\": 120}" -> [NoConfig EXCEPT !.max = IntV(120)]
      [] rule_config = "{\"min\": 120, \"max\": 0}" -> [NoConfig EXCEPT !.min = IntV(120), !.max = IntV(0)]
      [] rule_config = "{\"reference_table\": \"customers\", \"reference_column\": \"id\"}" ->
           [NoConfig EXCEPT !.reference_table = "customers", !.reference_column = "id"]
      [] rule_config = "{\"reference_table\": \"customers\"}" ->
           [NoConfig EXCEPT !.reference_table = "customers"]
      [] rule_config = "{\"reference_column\": \"id\"}" ->
           [NoConfig EXCEPT !.reference_column = "id"]
      [] rule_config = "{\"reference_table\": \"nowhere\", \"reference_column\": \"id\"}" ->
           [NoConfig EXCEPT !.reference_table = "nowhere", !.reference_column = "id"]
      [] OTHER -> [NoConfig EXCEPT !.err = TRUE]

(***************************************************************************)
(* The five checkers.  db is the database the connection reads.            *)
(***************************************************************************)
\* _validate_table_name raises ValueError unless sqlite_master lists the name.
ValidTable(db, table_name) == table_name \in DOMAIN db
InvalidTableName(table_name) == Raised(Details("Invalid table name: ", 0, 0, table_name))
\* The OperationalError of a query that names a column the table lacks.
NoSuchColumn(column_name) == Raised(Details("no such column: ", 0, 0, column_name))
HasColumn(db, table_name, column_name) == column_name \in ColumnNames(db[table_name])

_check_nulls(db, table_name, column_name, threshold) ==
    IF ~ValidTable(db, table_name) THEN InvalidTableName(table_name)
    ELSE IF ~HasColumn(db, table_name, column_name) THEN NoSuchColumn(column_name)
    ELSE
    LET vals == ColumnValues(db[table_name], column_name)
        total_count == Len(vals)
        null_count == CountIf(vals, IsNullOrEmpty)
        null_percentage == Percentage(null_count, total_count)
    IN  Returned(null_percentage, StatusOf(null_percentage, threshold),
                 Details("null values", null_count, total_count, ""))

_check_format(db, table_name, column_name, pattern, threshold) ==
    IF ~ValidTable(db, table_name) THEN InvalidTableName(table_name)
    ELSE IF ~HasColumn(db, table_name, column_name) THEN NoSuchColumn(column_name)
    ELSE
    LET all == ColumnValues(db[table_name], column_name)
        values == SelectSeq(all, LAMBDA v : ~IsNull(v) /\ ~IsEmptyText(v))
        Invalid(v) == ~ReMatch(pattern, PyStr(v))
        invalid_count == CountIf(values, Invalid)
        invalid_percentage == Percentage(invalid_count, Len(values))
    IN  IF values = <<>> THEN Returned(Zero, "PASS", Details("No values to check", 0, 0, ""))
        ELSE IF pattern = PyNone
             THEN Raised(Details("first argument must be string or compiled pattern", 0, 0, ""))
        ELSE IF RegexCompile(pattern).err
             THEN Raised(Details("re.error: ", 0, 0, pattern))
        ELSE Returned(invalid_percentage, StatusOf(invalid_percentage, threshold),
                      Details("invalid format", invalid_count, Len(values), ""))

_check_range(db, table_name, column_name, min_val, max_val, threshold) ==
    IF ~ValidTable(db, table_name) THEN InvalidTableName(table_name)
    ELSE IF ~HasColumn(db, table_name, column_name) THEN NoSuchColumn(column_name)
    ELSE
    LET vals == ColumnValues(db[table_name], column_name)
        aff == ColumnAffinity(db[table_name], column_name)
        NotNull(v) == ~IsNull(v)
        total_count == CountIf(vals, NotNull)
        Below(v) == ColLessParam(v, aff, min_val)
        Above(v) == ColGreaterParam(v, aff, max_val)
        Outside(v) == Below(v) \/ Above(v)
        out_of_range_count ==
            IF ~IsNull(min_val) /\ ~IsNull(max_val) THEN CountIf(vals, Outside)
            ELSE IF ~IsNull(min_val) THEN CountIf(vals, Below)
            ELSE CountIf(vals, Above)
        out_of_range_percentage == Percentage(out_of_range_count, total_count)
    IN  IF IsNull(min_val) /\ IsNull(max_val)
        THEN Returned(Zero, "PASS", Details("No range specified", 0, 0, ""))
        ELSE Returned(out_of_range_percentage, StatusOf(out_of_range_percentage, threshold),
                      Details("out of range", out_of_range_count, total_count, ""))

_check_uniqueness(db, table_name, column_name, threshold) ==
    IF ~ValidTable(db, table_name) THEN InvalidTableName(table_name)
    ELSE IF ~HasColumn(db, table_name, column_name) THEN NoSuchColumn(column_name)
    ELSE
    LET vals == ColumnValues(db[table_name], column_name)
        NotNull(v) == ~IsNull(v)
        total_count == CountIf(vals, NotNull)
        unique_count == CountDistinct(vals)
        duplicate_count == total_count - unique_count
        duplicate_percentage == Percentage(duplicate_count, total_count)
    IN  Returned(duplicate_percentage, StatusOf(duplicate_percentage, threshold),
                 Details("duplicates", duplicate_count, 0, ""))

\* FROM table t LEFT JOIN ref_table r ON t.column = r.ref_column: the pairs
\* <<i, j>> of a source row and a matching reference row, and <<i, 0>> (r all
\* NULL) for a source row that matches none.
InnerJoin(db, table_name, column_name, ref_table, ref_column) ==
    LET t == db[table_name]
        r == db[ref_table]
    IN  {pair \in (1..Len(t.rows)) \X (1..Len(r.rows)) :
            ColEqCol(t.rows[pair[1]][column_name], ColumnAffinity(t, column_name),
                     r.rows[pair[2]][ref_column], ColumnAffinity(r, ref_column))}
LeftJoin(db, table_name, column_name, ref_table, ref_column) ==
    LET t == db[table_name]
        r == db[ref_table]
        Matches(i) ==
            {j \in 1..Len(r.rows) :
                ColEqCol(t.rows[i][column_name], ColumnAffinity(t, column_name),
                         r.rows[j][ref_column], ColumnAffinity(r, ref_column))}
    IN  UNION {IF Matches(i) = {} THEN {<<i, 0>>} ELSE {<<i, j>> : j \in Matches(i)}
               : i \in 1..Len(t.rows)}

\* WHERE t.column IS NOT NULL AND r.ref_column IS NULL, on a joined pair.
OrphanWhereNoSourceTest(db, table_name, column_name, ref_table, ref_column, pair) ==
    pair[2] = 0 \/ IsNull(db[ref_table].rows[pair[2]][ref_column])
OrphanWhere(db, table_name, column_name, ref_table, ref_column, pair) ==
    /\ ~IsNull(db[table_name].rows[pair[1]][column_name])
    /\ (pair[2] = 0 \/ IsNull(db[ref_table].rows[pair[2]][ref_column]))

_check_foreign_key(db, table_name, column_name, ref_table, ref_column, threshold) ==
    IF ~ValidTable(db, table_name) THEN InvalidTableName(table_name)
    ELSE IF ~ValidTable(db, ref_table) THEN InvalidTableName(ref_table)
    ELSE IF ~HasColumn(db, table_name, column_name) THEN NoSuchColumn(column_name)
    ELSE IF ~HasColumn(db, ref_table, ref_column) THEN NoSuchColumn(ref_column)
    ELSE
    LET vals == ColumnValues(db[table_name], column_name)
        NotNull(v) == ~IsNull(v)
        joined == LeftJoin(db, table_name, column_name, ref_table, ref_column)
        orphan_count ==
            Cardinality({pair \in joined :
                OrphanWhere(db, table_name, column_name, ref_table, ref_column, pair)})
        total_count == CountIf(vals, NotNull)
        orphan_percentage == Percentage(orphan_count, total_count)
    IN  Returned(orphan_percentage, StatusOf(orphan_percentage, threshold),
                 Details("orphan records", orphan_count, 0, ""))

\* The identifiers a checker call puts into the text of a query it passes
\* to cursor.execute: a table name, or a column name of a table.
TableId(table_name) == [kind |-> "table", table |-> table_name, name |-> table_name]
ColumnId(table_name, column_name) == [kind |-> "column", table |-> table_name, name |-> column_name]
\* Every checker calls _validate_table_name(table_name) first, which raises
\* before any query; _check_foreign_key does so for ref_table as well.  No
\* checker tests column_name or ref_column before the query that holds it.
ExecutedIdentifiers(db, rule_type, table_name, column_name, ref_table, ref_column) ==
    IF ~ValidTable(db, table_name) THEN {}
    ELSE IF rule_type # "foreign_key_check"
         THEN {TableId(table_name), ColumnId(table_name, column_name)}
    ELSE IF ~ValidTable(db, ref_table) THEN {}
    ELSE {TableId(table_name), ColumnId(table_name, column_name),
          TableId(ref_table), ColumnId(ref_table, ref_column)}

(***************************************************************************)
(* The rule engine: run_quality_checks.                                    *)
(***************************************************************************)
RuleTypes == {"null_check", "format_check", "range_check", "uniqueness_check", "foreign_key_check"}

\* The if / elif chain of run_quality_checks: the checker call for a rule
\* whose rule_type is one of the five.
Dispatch(db, rule, config) ==
    CASE rule.rule_type = "null_check" ->
           _check_nulls(db, rule.table_name, rule.column_name, rule.threshold_value)
      [] rule.rule_type = "format_check" ->
           _check_format(db, rule.table_name, rule.column_name, config.pattern,
                         rule.threshold_value)
      [] rule.rule_type = "range_check" ->
           _check_range(db, rule.table_name, rule.column_name, config.min, config.max,
                        rule.threshold_value)
      [] rule.rule_type = "uniqueness_check" ->
           _check_uniqueness(db, rule.table_name, rule.column_name, rule.threshold_value)
      [] rule.rule_type = "foreign_key_check" ->
           _check_foreign_key(db, rule.table_name, rule.column_name, config.reference_table,
                              config.reference_column, rule.threshold_value)

\* The row of the INSERT INTO quality_results after a checker returned
\* (result_id is the row's position, check_date is left out).
ResultRow(rule, result) ==
    [rule_id |-> rule.rule_id, table_name |-> rule.table_name,
     column_name |-> rule.column_name, metric_value |-> result.metric_value,
     threshold_value |-> rule.threshold_value, status |-> result.status,
     details |-> result.details]

\* The row of the INSERT INTO quality_results of the except branch.
ErrorRowAsFail(rule, e) ==
    [rule_id |-> rule.rule_id, table_name |-> rule.table_name,
     column_name |-> rule.column_name, metric_value |-> Zero,
     threshold_value |-> rule.threshold_value, status |-> "FAIL", details |-> e]
ErrorRow(rule, e) ==
    [rule_id |-> rule.rule_id, table_name |-> rule.table_name,
     column_name |-> rule.column_name, metric_value |-> Zero,
     threshold_value |-> rule.threshold_value, status |-> "ERROR", details |-> e]

\* The dictionary appended to results.
ResultEntry(rule, result) ==
    [rule_id |-> rule.rule_id, table_name |-> rule.table_name,
     column_name |-> rule.column_name, rule_type |-> rule.rule_type,
     metric_value |-> result.metric_value, threshold_value |-> rule.threshold_value,
     status |-> result.status, details |-> result.details]

\* SELECT ... FROM quality_rules WHERE is_active = 1, in table order.
ActiveRulesIgnoringFlag(all_rules) == all_rules
ActiveRules(all_rules) == SelectSeq(all_rules, LAMBDA r : r.is_active)

\* The orders in which a SELECT without ORDER BY may yield the rows.
YieldOrders(rows) ==
    {[i \in 1..Len(rows) |-> rows[f[i]]] :
        f \in {g \in [1..Len(rows) -> 1..Len(rows)] :
                 \A a, b \in 1..Len(rows) : a # b => g[a] # g[b]}}

\* conn.commit(): the rows of the transaction become rows of the table.
CommitRowsOverwrite(table_rows, tx_rows) == tx_rows
CommitRows(table_rows, tx_rows) == table_rows \o tx_rows

DatabaseIsLocked == Details("database is locked", 0, 0, "")
JSONDecodeError == Details("JSONDecodeError", 0, 0, "")

(***************************************************************************)
(* The profiler: profile_data.                                             *)
(***************************************************************************)
\* A Python float or None; a float is kept as the fraction num / den.
NoneQ == [none |-> TRUE, num |-> 0, den |-> 1]
Q(num, den) == [none |-> FALSE, num |-> num, den |-> den]

\* The number SQLite's arithmetic and AVG take a value for: the integer a
\* text starts with, 0 when it starts with none.
RECURSIVE DigitPrefix(_)
DigitPrefix(s) ==
    IF s = <<>> \/ Head(s) \notin Digits THEN <<>> ELSE <<Head(s)>> \o DigitPrefix(Tail(s))
NumericOf(v) ==
    CASE v.t = "int" -> v.n
      [] v.t = "text" /\ v.s # <<>> /\ Head(v.s) = "-" -> 0 - DigitsVal(DigitPrefix(Tail(v.s)), 0)
      [] v.t = "text" -> DigitsVal(DigitPrefix(v.s), 0)
      [] OTHER -> 0

RECURSIVE SumSeq(_)
SumSeq(ns) == IF ns = <<>> THEN 0 ELSE Head(ns) + SumSeq(Tail(ns))

\* MIN(x) and MAX(x) over non-null values, NULL when there is none.
MinOf(vals) ==
    IF vals = <<>> THEN NULL
    ELSE vals[CHOOSE i \in 1..Len(vals) : \A j \in 1..Len(vals) : ~ValLess(vals[j], vals[i])]
MaxOf(vals) ==
    IF vals = <<>> THEN NULL
    ELSE vals[CHOOSE i \in 1..Len(vals) : \A j \in 1..Len(vals) : ~ValLess(vals[i], vals[j])]
\* AVG over the numbers ns, None when there is none.
AvgOf(ns) == IF ns = <<>> THEN NoneQ ELSE Q(SumSeq(ns), Len(ns))

\* LENGTH(x) of a non-null value.
LengthOf(v) == IntV(Len(PyStr(v)))

\* AVG((x - avg) * (x - avg)) over the numbers ns, for avg = AVG(ns): the
\* variance sum((n * x - S)^2) / n^3 with n = Len(ns) and S = sum(ns).
VarianceOf(ns) ==
    LET n == Len(ns)
        S == SumSeq(ns)
    IN  Q(SumSeq([i \in 1..n |-> (n * ns[i] - S) * (n * ns[i] - S)]), n * n * n)

\* The dictionary profile_data appends for one column.  std_dev holds the
\* variance the code takes the square root of (0 for a variance of 0).
ProfileColumn(db, table_name, column) ==
    LET column_name == column.name
        data_type == column.data_type
        vals == ColumnValues(db[table_name], column_name)
        non_null == SelectSeq(vals, LAMBDA v : ~IsNull(v))
        total_count == Len(vals)
        null_count == CountIf(vals, IsNullOrEmpty)
        unique_count == CountDistinct(vals)
        numbers == [i \in 1..Len(non_null) |-> NumericOf(non_null[i])]
        lengths == [i \in 1..Len(non_null) |-> LengthOf(non_null[i])]
        numeric == data_type \in {"INTEGER", "REAL", "DECIMAL"}
        text == data_type = "TEXT"
        avg_value ==
            IF numeric THEN AvgOf(numbers)
            ELSE IF text THEN AvgOf([i \in 1..Len(lengths) |-> lengths[i].n])
            ELSE NoneQ
    IN  [column_name |-> column_name, data_type |-> data_type,
         total_count |-> total_count, null_count |-> null_count,
         unique_count |-> unique_count,
         min_value |-> IF numeric THEN MinOf(non_null)
                       ELSE IF text THEN MinOf(lengths) ELSE NULL,
         max_value |-> IF numeric THEN MaxOf(non_null)
                       ELSE IF text THEN MaxOf(lengths) ELSE NULL,
         avg_value |-> avg_value,
         std_dev |-> IF numeric /\ ~avg_value.none THEN VarianceOf(numbers) ELSE NoneQ,
         null_percentage |-> Percentage(null_count, total_count),
         unique_percentage |-> Percentage(unique_count, total_count)]

\* What profile_data(table_name) ends with: the list of column profiles, or
\* the ValueError of _validate_table_name.
profile_data(db, table_name) ==
    IF ~ValidTable(db, table_name)
    THEN [exc |-> TRUE, details |-> Details("Invalid table name: ", 0, 0, table_name),
          profiles |-> <<>>]
    ELSE [exc |-> FALSE, details |-> Details("", 0, 0, ""),
          profiles |-> [i \in 1..Len(db[table_name].columns) |->
                          ProfileColumn(db, table_name, db[table_name].columns[i])]]

(***************************************************************************)
(* State.                                                                  *)
(***************************************************************************)
VARIABLES
    db,               \* the monitored tables: name -> [columns, rows]
    quality_rules,    \* the rows of quality_rules, in rule_id order
    quality_results,  \* the committed rows of quality_results, in result_id order
    pc,               \* per request thread: where its run_quality_checks call is
    rules,            \* per thread: the fetched list rules
    at,               \* per thread: the index of the rule the for loop is at
    err,              \* per thread: str(e) of the exception the except branch holds
    tx,               \* per thread: the rows its connection inserted and has not committed
    results,          \* per thread: the list results
    ret,              \* per thread: what the last call ended with
    appended,         \* per thread: the rows the last call added to quality_results
    lock,             \* the connection holding SQLite's write lock, or "none"
    profile_ret,      \* per table: what the last profile_data call on it ended with
    call,             \* the checker call made on db, for a single checker call
    result,           \* what that call ended with
    elapsed,          \* per thread: how long the checker call of the current rule has run
    took,             \* per thread: how long the finished checker calls ran, by rule_id
    ctor,             \* where the construction of DataQualityMonitor is
    loaded,           \* the rows load_sample_data's connection inserted and has not committed
    ctor_ret          \* what the construction ended with

vars == <<db, quality_rules, quality_results, pc, rules, at, err, tx, results, ret,
          appended, lock, profile_ret, call, result, elapsed, took, ctor, loaded, ctor_ret>>

engine_vars == <<quality_rules, quality_results, pc, rules, at, err, tx, results, ret,
                 appended, lock, profile_ret>>

\* The request threads of the web server that call run_quality_checks, each
\* once: one after the other, or overlapping.
Threads == {"w1", "w2"}

Column(name, data_type) == [name |-> name, data_type |-> data_type]

\* A database as the constructor leaves it, cut down to three tables with a
\* few rows, a quality issue in each column.
SampleDB ==
    [customers |->
        [columns |-> <<Column("id", "INTEGER"), Column("email", "TEXT"), Column("age", "INTEGER")>>,
         rows |-> <<[id |-> IntV(1), email |-> TextV(<<"a", "@", "b">>), age |-> IntV(25)],
                    [id |-> IntV(2), email |-> TextV(<<>>), age |-> IntV(150)],
                    [id |-> IntV(3), email |-> NULL, age |-> NULL]>>],
     orders |->
        [columns |-> <<Column("id", "INTEGER"), Column("customer_id", "INTEGER"),
                       Column("total_amount", "DECIMAL(10,2)")>>,
         rows |-> <<[id |-> IntV(1), customer_id |-> IntV(1), total_amount |-> IntV(25)],
                    [id |-> IntV(2), customer_id |-> IntV(9), total_amount |-> IntV(0)]>>],
     products |->
        [columns |-> <<Column("id", "INTEGER"), Column("name", "TEXT")>>,
         rows |-> <<>>]]

\* Rules a rule administrator may have stored (rule_id is given on insert).
RuleTemplate(table_name, column_name, rule_type, rule_config, threshold_value, is_active) ==
    [table_name |-> table_name, column_name |-> column_name, rule_type |-> rule_type,
     rule_config |-> rule_config, threshold_value |-> threshold_value,
     is_active |-> is_active]
Catalogue ==
    << RuleTemplate("customers", "email", "null_check", "{}", 5, TRUE),
       RuleTemplate("products", "name", "format_check", "{}", 10, TRUE),
       RuleTemplate("customers", "email", "format_check", "{}", 10, TRUE),
       RuleTemplate("nowhere", "name", "null_check", "{}", 5, TRUE),
       RuleTemplate("customers", "email", "length_check", "{}", 5, TRUE),
       RuleTemplate("customers", "email", "null_check", "{bad", 5, TRUE),
       RuleTemplate("orders", "customer_id", "foreign_key_check",
                    "{\"reference_table\": \"customers\"}", 0, TRUE),
       RuleTemplate("customers", "email", "uniqueness_check", "{}", 1, FALSE) >>

WithId(template, rule_id) ==
    [rule_id |-> rule_id, table_name |-> template.table_name,
     column_name |-> template.column_name, rule_type |-> template.rule_type,
     rule_config |-> template.rule_config, threshold_value |-> template.threshold_value,
     is_active |-> template.is_active]

\* The contents of quality_rules of the model: up to MaxRules catalogue rules,
\* with rule_id 1, 2, ... in catalogue order.
RuleTables ==
    UNION {{[i \in 1..n |-> WithId(Catalogue[pick[i]], i)] :
              pick \in {f \in [1..n -> 1..Len(Catalogue)] :
                          \A a, b \in 1..n : a < b => f[a] < f[b]}}
           : n \in 0..MaxRules}

NoRet == [exc |-> FALSE, returned |-> FALSE, value |-> <<>>, details |-> Details("", 0, 0, "")]
NoProfile == [exc |-> FALSE, details |-> Details("none", 0, 0, ""), profiles |-> <<>>]
\* The table names the /profile/<table_name> route is requested with.
ProfileTables == {"customers", "orders"}
ColumnTables == {"t", "nowhere"}
NoCall == WithId(RuleTemplate("t", "c", "none", "", 0, TRUE), 1)
NoResult == Raised(Details("not called", 0, 0, ""))
\* load_sample_data's connection with no uncommitted rows, and a construction
\* that returned.
NothingLoaded == [customers |-> <<>>, products |-> <<>>, orders |-> <<>>]
Constructed == [exc |-> FALSE, details |-> Details("", 0, 0, "")]

EngineInit ==
    /\ quality_results = <<>>
    /\ pc = [p \in Threads |-> "idle"]
    /\ rules = [p \in Threads |-> <<>>]
    /\ at = [p \in Threads |-> 1]
    /\ err = [p \in Threads |-> Details("", 0, 0, "")]
    /\ tx = [p \in Threads |-> <<>>]
    /\ results = [p \in Threads |-> <<>>]
    /\ ret = [p \in Threads |-> NoRet]
    /\ appended = [p \in Threads |-> <<>>]
    /\ lock = "none"
    /\ profile_ret = [table_name \in ProfileTables \cup ColumnTables |-> NoProfile]
    /\ elapsed = [p \in Threads |-> 0]
    /\ took = [p \in Threads |-> {}]
    /\ ctor = "constructed"
    /\ loaded = NothingLoaded
    /\ ctor_ret = Constructed

Init ==
    /\ db = SampleDB
    /\ quality_rules \in RuleTables
    /\ EngineInit
    /\ call = NoCall
    /\ result = NoResult

(***************************************************************************)
(* run_quality_checks, one step per loop iteration.  The connection of a   *)
(* call takes SQLite's write lock with its first INSERT and keeps it until *)
(* commit or close; an INSERT that finds the lock held by another          *)
(* connection for the whole busy timeout raises "database is locked".      *)
(***************************************************************************)
InLoop(p) == pc[p] = "loop" /\ at[p] <= Len(rules[p])
CurrentRule(p) == rules[p][at[p]]
CanWrite(p) == lock \in {"none", p}

\* conn.close() in the finally clause after an exception escaped: the rows
\* of the open transaction are rolled back and the exception reaches the caller.
EscapeCommitting(p, e) ==
    /\ pc' = [pc EXCEPT ![p] = "done"]
    /\ quality_results' = quality_results \o tx[p]
    /\ tx' = [tx EXCEPT ![p] = <<>>]
    /\ lock' = IF lock = p THEN "none" ELSE lock
    /\ ret' = [ret EXCEPT ![p] = [exc |-> TRUE, returned |-> FALSE, value |-> <<>>, details |-> e]]
    /\ UNCHANGED <<db, quality_rules, rules, at, err, results, appended,
                   profile_ret, call, result, elapsed, took, ctor, loaded, ctor_ret>>
Escape(p, e) ==
    /\ pc' = [pc EXCEPT ![p] = "done"]
    /\ tx' = [tx EXCEPT ![p] = <<>>]
    /\ lock' = IF lock = p THEN "none" ELSE lock
    /\ ret' = [ret EXCEPT ![p] = [exc |-> TRUE, returned |-> FALSE, value |-> <<>>, details |-> e]]
    /\ UNCHANGED <<db, quality_rules, quality_results, rules, at, err, results, appended,
                   profile_ret, call, result, elapsed, took, ctor, loaded, ctor_ret>>

\* connect, SELECT the active rules, results = [].
Begin(p) ==
    /\ pc[p] = "idle"
    /\ \E order \in YieldOrders(ActiveRules(quality_rules)) :
          rules' = [rules EXCEPT ![p] = order]
    /\ pc' = [pc EXCEPT ![p] = "loop"]
    /\ at' = [at EXCEPT ![p] = 1]
    /\ tx' = [tx EXCEPT ![p] = <<>>]
    /\ results' = [results EXCEPT ![p] = <<>>]
    /\ ret' = [ret EXCEPT ![p] = NoRet]
    /\ appended' = [appended EXCEPT ![p] = <<>>]
    /\ UNCHANGED <<db, quality_rules, quality_results, err, lock, profile_ret, call, result,
                   elapsed, took, ctor, loaded, ctor_ret>>

\* json.loads(rule_config) raises: outside the try, so the call ends.
EvalBadConfig(p) ==
    /\ InLoop(p)
    /\ JsonLoads(CurrentRule(p).rule_config).err
    /\ Escape(p, JSONDecodeError)

\* else: continue
EvalUnknownType(p) ==
    /\ InLoop(p)
    /\ ~JsonLoads(CurrentRule(p).rule_config).err
    /\ CurrentRule(p).rule_type \notin RuleTypes
    /\ at' = [at EXCEPT ![p] = at[p] + 1]
    /\ UNCHANGED <<db, quality_rules, quality_results, pc, rules, err, tx, results, ret,
                   appended, lock, profile_ret, call, result, elapsed, took, ctor, loaded, ctor_ret>>

\* The checker of the rule, for a rule that reaches one.
Checked(p) == Dispatch(db, CurrentRule(p), JsonLoads(CurrentRule(p).rule_config))
Reaches(p) ==
    /\ InLoop(p)
    /\ ~JsonLoads(CurrentRule(p).rule_config).err
    /\ CurrentRule(p).rule_type \in RuleTypes

\* The checker raises: control passes to the except branch.
EvalRaises(p) ==
    /\ Reaches(p)
    /\ Checked(p).exc
    /\ pc' = [pc EXCEPT ![p] = "except"]
    /\ err' = [err EXCEPT ![p] = Checked(p).details]
    /\ UNCHANGED <<db, quality_rules, quality_results, rules, at, tx, results, ret,
                   appended, lock, profile_ret, call, result, elapsed, took, ctor, loaded, ctor_ret>>

\* The checker returns: INSERT the result row, append to results.
EvalStores(p) ==
    /\ Reaches(p)
    /\ ~Checked(p).exc
    /\ CanWrite(p)
    /\ lock' = p
    /\ tx' = [tx EXCEPT ![p] = Append(tx[p], ResultRow(CurrentRule(p), Checked(p)))]
    /\ results' = [results EXCEPT ![p] = Append(results[p], ResultEntry(CurrentRule(p), Checked(p)))]
    /\ at' = [at EXCEPT ![p] = at[p] + 1]
    /\ UNCHANGED <<db, quality_rules, quality_results, pc, rules, err, ret, appended,
                   profile_ret, call, result, elapsed, took, ctor, loaded, ctor_ret>>

\* The checker returns and the INSERT of the result row raises, another
\* connection holding the write lock: control passes to the except branch.
EvalStoreLocked(p) ==
    /\ Reaches(p)
    /\ ~Checked(p).exc
    /\ ~CanWrite(p)
    /\ pc' = [pc EXCEPT ![p] = "except"]
    /\ err' = [err EXCEPT ![p] = DatabaseIsLocked]
    /\ UNCHANGED <<db, quality_rules, quality_results, rules, at, tx, results, ret,
                   appended, lock, profile_ret, call, result, elapsed, took, ctor, loaded, ctor_ret>>

\* except Exception as e: INSERT the ERROR row, go on with the next rule.
ExceptStores(p) ==
    /\ pc[p] = "except"
    /\ CanWrite(p)
    /\ lock' = p
    /\ tx' = [tx EXCEPT ![p] = Append(tx[p], ErrorRow(CurrentRule(p), err[p]))]
    /\ at' = [at EXCEPT ![p] = at[p] + 1]
    /\ pc' = [pc EXCEPT ![p] = "loop"]
    /\ UNCHANGED <<db, quality_rules, quality_results, rules, err, results, ret, appended,
                   profile_ret, call, result, elapsed, took, ctor, loaded, ctor_ret>>

\* The INSERT of the except branch raises "database is locked": nothing
\* catches it.
ExceptLocked(p) ==
    /\ pc[p] = "except"
    /\ ~CanWrite(p)
    /\ Escape(p, DatabaseIsLocked)

\* After the loop: conn.commit(), conn.close(), return results.
Commit(p) ==
    /\ pc[p] = "loop"
    /\ at[p] > Len(rules[p])
    /\ quality_results' = CommitRows(quality_results, tx[p])
    /\ appended' = [appended EXCEPT ![p] = tx[p]]
    /\ tx' = [tx EXCEPT ![p] = <<>>]
    /\ lock' = IF lock = p THEN "none" ELSE lock
    /\ ret' = [ret EXCEPT ![p] = [exc |-> FALSE, returned |-> TRUE, value |-> results[p],
                                  details |-> Details("", 0, 0, "")]]
    /\ pc' = [pc EXCEPT ![p] = "done"]
    /\ UNCHANGED <<db, quality_rules, rules, at, err, results, profile_ret, call, result,
                   elapsed, took, ctor, loaded, ctor_ret>>

\* profile_data(table_name), as the /profile/<table_name> route calls it: a
\* call of its own, between any two steps of the calls of run_quality_checks.
ProfileDataAccumulating(table_name) ==
    /\ profile_ret' =
          [profile_ret EXCEPT ![table_name] =
              [profile_data(db, table_name) EXCEPT !.profiles = profile_ret[table_name].profiles \o @]]
    /\ UNCHANGED <<db, quality_rules, quality_results, pc, rules, at, err, tx, results, ret,
                   appended, lock, call, result, elapsed, took, ctor, loaded, ctor_ret>>
ProfileData(table_name) ==
    /\ profile_ret' = [profile_ret EXCEPT ![table_name] = profile_data(db, table_name)]
    /\ UNCHANGED <<db, quality_rules, quality_results, pc, rules, at, err, tx, results, ret,
                   appended, lock, call, result, elapsed, took, ctor, loaded, ctor_ret>>

Next ==
    \/ \E p \in Threads : Begin(p)
    \/ \E p \in Threads : EvalBadConfig(p)
    \/ \E p \in Threads : EvalUnknownType(p)
    \/ \E p \in Threads : EvalRaises(p)
    \/ \E p \in Threads : EvalStores(p)
    \/ \E p \in Threads : EvalStoreLocked(p)
    \/ \E p \in Threads : ExceptStores(p)
    \/ \E p \in Threads : ExceptLocked(p)
    \/ \E p \in Threads : Commit(p)
    \/ \E table_name \in ProfileTables : ProfileData(table_name)

Spec == Init /\ [][Next]_vars

(***************************************************************************)
(* One call of run_quality_checks with the time its checker calls take.    *)
(* A checker call blocks the loop until its queries and its Python loop    *)
(* end; how long that is depends on the tables and, for format_check, on   *)
(* the pattern, so the model lets a call end after any time up to          *)
(* MaxElapsed.  run_quality_checks takes no timeout and starts no timer.   *)
(***************************************************************************)
\* The one thread that calls: no INSERT of it finds the write lock held.
Callers == {"w1"}

\* The checker call of the current rule is running.
CheckerRuns(p) ==
    /\ Reaches(p)
    /\ elapsed[p] < MaxElapsed
    /\ elapsed' = [elapsed EXCEPT ![p] = elapsed[p] + 1]
    /\ UNCHANGED <<db, quality_rules, quality_results, pc, rules, at, err, tx, results, ret,
                   appended, lock, profile_ret, call, result, took, ctor, loaded, ctor_ret>>

\* The checker call ends by raising: control passes to the except branch.
EvalRaisesAfter(p) ==
    /\ Reaches(p)
    /\ elapsed[p] >= 1
    /\ Checked(p).exc
    /\ pc' = [pc EXCEPT ![p] = "except"]
    /\ err' = [err EXCEPT ![p] = Checked(p).details]
    /\ took' = [took EXCEPT ![p] = @ \cup {[rule_id |-> CurrentRule(p).rule_id,
                                               elapsed |-> elapsed[p]]}]
    /\ elapsed' = [elapsed EXCEPT ![p] = 0]
    /\ UNCHANGED <<db, quality_rules, quality_results, rules, at, tx, results, ret,
                   appended, lock, profile_ret, call, result, ctor, loaded, ctor_ret>>

\* The checker call ends by returning: INSERT the result row, append to results.
EvalStoresAfter(p) ==
    /\ Reaches(p)
    /\ elapsed[p] >= 1
    /\ ~Checked(p).exc
    /\ CanWrite(p)
    /\ lock' = p
    /\ tx' = [tx EXCEPT ![p] = Append(tx[p], ResultRow(CurrentRule(p), Checked(p)))]
    /\ results' = [results EXCEPT ![p] = Append(results[p], ResultEntry(CurrentRule(p), Checked(p)))]
    /\ at' = [at EXCEPT ![p] = at[p] + 1]
    /\ took' = [took EXCEPT ![p] = @ \cup {[rule_id |-> CurrentRule(p).rule_id,
                                               elapsed |-> elapsed[p]]}]
    /\ elapsed' = [elapsed EXCEPT ![p] = 0]
    /\ UNCHANGED <<db, quality_rules, quality_results, pc, rules, err, ret, appended,
                   profile_ret, call, result, ctor, loaded, ctor_ret>>

TimedNext ==
    \/ \E p \in Callers : Begin(p)
    \/ \E p \in Callers : EvalBadConfig(p)
    \/ \E p \in Callers : EvalUnknownType(p)
    \/ \E p \in Callers : CheckerRuns(p)
    \/ \E p \in Callers : EvalRaisesAfter(p)
    \/ \E p \in Callers : EvalStoresAfter(p)
    \/ \E p \in Callers : ExceptStores(p)
    \/ \E p \in Callers : Commit(p)

SpecTimed == Init /\ [][TimedNext]_vars

(***************************************************************************)
(* One checker call on one column: the table t with the column c, of       *)
(* declared type TEXT or INTEGER, and the reference table customers with   *)
(* the column id.                                                          *)
(***************************************************************************)
\* The values a column of each declared type may hold: a TEXT column stores
\* every value as text; an INTEGER column stores integers, and as text only
\* what does not look like a number.
TextValues == {NULL, TextV(<<>>), TextV(<<"1", "2", "3">>), TextV(<<"1", "2", "a">>)}
IntegerValues == {NULL, IntV(0 - 5), IntV(25), IntV(150), TextV(<<>>)}
RefValues == {NULL, IntV(25), IntV(123)}

SeqsUpTo(S, n) == UNION {[1..k -> S] : k \in 0..n}

CheckDB(data_type, vals, ref_vals) ==
    [t |-> [columns |-> <<Column("c", data_type)>>,
            rows |-> [i \in 1..Len(vals) |-> [c |-> vals[i]]]],
     customers |-> [columns |-> <<Column("id", "INTEGER")>>,
                    rows |-> [i \in 1..Len(ref_vals) |-> [id |-> ref_vals[i]]]]]

\* The column of the format example: "123", "12a", "" and null.
FormatExample ==
    <<TextV(<<"1", "2", "3">>), TextV(<<"1", "2", "a">>), TextV(<<>>), NULL>>

\* The column of the null example: 10 rows, one null and one empty.
NullExample ==
    [i \in 1..10 |-> IF i = 3 THEN NULL ELSE IF i = 7 THEN TextV(<<>>) ELSE TextV(<<"a">>)]
\* The column of the range example, and one with values at the bounds 0 and
\* 120 and next to them.
RangeExample == <<IntV(25), IntV(150), IntV(0 - 5), IntV(40)>>
BoundsExample == <<IntV(0), IntV(120), IntV(0 - 1), IntV(121), NULL>>
\* The column of the uniqueness example: a, a, a, b, c.
UniquenessExample ==
    <<TextV(<<"a">>), TextV(<<"a">>), TextV(<<"a">>), TextV(<<"b">>), TextV(<<"c">>)>>
\* The columns of the foreign key example: 1, 2, 3, 99 against the ids 1, 2,
\* 3; and a source column against ids with a duplicate and a null.
ForeignKeyExample == <<IntV(1), IntV(2), IntV(3), IntV(99)>>
ForeignKeyExampleIds == <<IntV(1), IntV(2), IntV(3)>>
DuplicateIdsExample == <<IntV(25), IntV(25), IntV(123), NULL, IntV(150)>>
DuplicateIds == <<IntV(25), NULL, IntV(25)>>
\* A column of 20 rows, 11 of them null.
ElevenOfTwenty == [i \in 1..20 |-> IF i <= 11 THEN NULL ELSE TextV(<<"a">>)]

CheckDBs ==
    {CheckDB("TEXT", vals, ref_vals) :
        vals \in SeqsUpTo(TextValues, MaxRows), ref_vals \in SeqsUpTo(RefValues, MaxRefRows)}
    \cup
    {CheckDB("INTEGER", vals, ref_vals) :
        vals \in SeqsUpTo(IntegerValues, MaxRows), ref_vals \in SeqsUpTo(RefValues, MaxRefRows)}
    \cup
    {CheckDB("TEXT", FormatExample, <<>>), CheckDB("TEXT", NullExample, <<>>),
     CheckDB("TEXT", ElevenOfTwenty, <<>>), CheckDB("INTEGER", RangeExample, <<>>),
     CheckDB("INTEGER", BoundsExample, <<>>), CheckDB("TEXT", UniquenessExample, <<>>),
     CheckDB("INTEGER", ForeignKeyExample, ForeignKeyExampleIds),
     CheckDB("INTEGER", DuplicateIdsExample, DuplicateIds)}

\* Thresholds: percentages in 0..100, as the data model of a rule has them.
Thresholds == {0, 33, 34, 50, 100}
\* Further thresholds of a null check: of the null example, and 55.
NullThresholds == {5, 55}

FormatConfigs ==
    {"{}", "{\"pattern\": \"^[0-9]+$\"}", "{\"pattern\": \"^[0-9]+\"}",
     "{\"pattern\": \"^[a-c]+@[a-c]$\"}", "{\"pattern\": \"[\"}"}
RangeConfigs ==
    {"{}", "{\"min\": 0, \"max\": 120}", "{\"min\": 0}", "{\"max\": 120}",
     "{\"min\": 120, \"max\": 0}"}
ForeignKeyConfigs ==
    {"{\"reference_table\": \"customers\", \"reference_column\": \"id\"}",
     "{\"reference_table\": \"customers\"}", "{\"reference_column\": \"id\"}",
     "{\"reference_table\": \"nowhere\", \"reference_column\": \"id\"}"}

CheckInit ==
    /\ db \in CheckDBs
    /\ quality_rules = <<>>
    /\ EngineInit
    /\ call = NoCall
    /\ result = NoResult

\* The rule the engine makes a checker call for, on t.c.
CheckRule(rule_type, rule_config, threshold) ==
    WithId(RuleTemplate("t", "c", rule_type, rule_config, threshold, TRUE), 1)

CallNulls ==
    /\ call = NoCall
    /\ \E threshold \in Thresholds \cup NullThresholds :
          /\ call' = CheckRule("null_check", "{}", threshold)
          /\ result' = Dispatch(db, call', JsonLoads(call'.rule_config))
    /\ UNCHANGED <<db, engine_vars, elapsed, took, ctor, loaded, ctor_ret>>

CallFormat ==
    /\ call = NoCall
    /\ \E threshold \in Thresholds, rule_config \in FormatConfigs :
          /\ call' = CheckRule("format_check", rule_config, threshold)
          /\ result' = Dispatch(db, call', JsonLoads(call'.rule_config))
    /\ UNCHANGED <<db, engine_vars, elapsed, took, ctor, loaded, ctor_ret>>

CallRange ==
    /\ call = NoCall
    /\ \E threshold \in Thresholds, rule_config \in RangeConfigs :
          /\ call' = CheckRule("range_check", rule_config, threshold)
          /\ result' = Dispatch(db, call', JsonLoads(call'.rule_config))
    /\ UNCHANGED <<db, engine_vars, elapsed, took, ctor, loaded, ctor_ret>>

CallUniqueness ==
    /\ call = NoCall
    /\ \E threshold \in Thresholds :
          /\ call' = CheckRule("uniqueness_check", "{}", threshold)
          /\ result' = Dispatch(db, call', JsonLoads(call'.rule_config))
    /\ UNCHANGED <<db, engine_vars, elapsed, took, ctor, loaded, ctor_ret>>

CallForeignKey ==
    /\ call = NoCall
    /\ \E threshold \in Thresholds, rule_config \in ForeignKeyConfigs :
          /\ call' = CheckRule("foreign_key_check", rule_config, threshold)
          /\ result' = Dispatch(db, call', JsonLoads(call'.rule_config))
    /\ UNCHANGED <<db, engine_vars, elapsed, took, ctor, loaded, ctor_ret>>

\* A rule on a column name the table does not have.
UnknownColumnRules ==
    {<<"null_check", "{}">>, <<"format_check", "{\"pattern\": \"^[0-9]+$\"}">>,
     <<"range_check", "{\"min\": 0, \"max\": 120}">>, <<"uniqueness_check", "{}">>,
     <<"foreign_key_check", "{\"reference_table\": \"customers\", \"reference_column\": \"id\"}">>}
CallUnknownColumn ==
    /\ call = NoCall
    /\ \E rule \in UnknownColumnRules :
          /\ call' = WithId(RuleTemplate("t", "nocol", rule[1], rule[2], 0, TRUE), 1)
          /\ result' = Dispatch(db, call', JsonLoads(call'.rule_config))
    /\ UNCHANGED <<db, engine_vars, elapsed, took, ctor, loaded, ctor_ret>>

CheckNext ==
    \/ CallNulls \/ CallFormat \/ CallRange \/ CallUniqueness \/ CallForeignKey
    \/ CallUnknownColumn

SpecCheck == CheckInit /\ [][CheckNext]_vars

(***************************************************************************)
(* One profile_data call on the table t with the column c, for each        *)
(* declared type of the schema.                                            *)
(***************************************************************************)
\* The declared types init_database gives its columns.
DeclaredTypes == {"INTEGER", "TEXT", "DECIMAL(10,2)", "DATE"}
\* The declared types PRAGMA table_info may report for a numeric column.
NumericTypes == {"INTEGER", "REAL", "DECIMAL", "DECIMAL(10,2)"}
\* A DATE column holds its dates as text.
DateValues == {NULL, TextV(<<>>), TextV(<<"2", "-", "1">>), TextV(<<"2", "-", "3">>)}
ValuesOfType(data_type) ==
    CASE data_type = "TEXT" -> TextValues
      [] data_type = "DATE" -> DateValues
      [] OTHER -> IntegerValues

ProfileDBs ==
    UNION {{CheckDB(data_type, vals, <<>>) : vals \in SeqsUpTo(ValuesOfType(data_type), MaxRows)}
           : data_type \in DeclaredTypes \cup NumericTypes}

ProfileInit ==
    /\ db \in ProfileDBs
    /\ quality_rules = <<>>
    /\ EngineInit
    /\ call = NoCall
    /\ result = NoResult

ProfileNext == \E table_name \in ColumnTables : ProfileData(table_name)

SpecProfile == ProfileInit /\ [][ProfileNext]_vars

(***************************************************************************)
(* The construction of DataQualityMonitor: init_database, then             *)
(* load_sample_data, which calls setup_quality_rules before it commits.    *)
(* Each of the two functions opens a connection of its own on db_path; a   *)
(* connection takes SQLite's write lock with its first INSERT and keeps it *)
(* until it commits or is closed.  The model generates MaxSample rows for *)
(* each table where the code generates 100, 50 and 200.                    *)
(***************************************************************************)
\* The tables of init_database, as CREATE TABLE makes them.
CreatedTables ==
    [name \in DOMAIN SampleDB |-> [columns |-> SampleDB[name].columns, rows |-> <<>>]]

\* rules of setup_quality_rules.
DefaultRules ==
    << RuleTemplate("customers", "name", "null_check", "{}", 5, TRUE),
       RuleTemplate("customers", "email", "null_check", "{}", 5, TRUE),
       RuleTemplate("products", "name", "null_check", "{}", 2, TRUE),
       RuleTemplate("products", "category", "null_check", "{}", 3, TRUE),
       RuleTemplate("customers", "email", "format_check",
                    "{\"pattern\": \"^[\\w\\.-]+@[\\w\\.-]+\\.[a-zA-Z]{2,}$\"}", 10, TRUE),
       RuleTemplate("customers", "phone", "format_check",
                    "{\"pattern\": \"^\\+?[1-9]\\d{1,14}$\"}", 15, TRUE),
       RuleTemplate("customers", "age", "range_check", "{\"min\": 0, \"max\": 120}", 5, TRUE),
       RuleTemplate("products", "price", "range_check", "{\"min\": 0, \"max\": 10000}", 5, TRUE),
       RuleTemplate("products", "stock", "range_check", "{\"min\": 0, \"max\": 1000}", 10, TRUE),
       RuleTemplate("orders", "quantity", "range_check", "{\"min\": 1, \"max\": 100}", 5, TRUE),
       RuleTemplate("customers", "email", "uniqueness_check", "{}", 1, TRUE),
       RuleTemplate("orders", "customer_id", "foreign_key_check",
                    "{\"reference_table\": \"customers\", \"reference_column\": \"id\"}", 0, TRUE),
       RuleTemplate("orders", "product_id", "foreign_key_check",
                    "{\"reference_table\": \"products\", \"reference_column\": \"id\"}", 0, TRUE) >>

\* The lists load_sample_data may generate: random.choice and random.randint
\* pick the values, the ids are 1, 2, ...
GeneratedCustomers ==
    {[i \in 1..MaxSample |-> [id |-> IntV(i), email |-> pick[i][1], age |-> pick[i][2]]] :
        pick \in [1..MaxSample -> {TextV(<<"a", "@", "b">>), NULL} \X {IntV(25), IntV(150)}]}
GeneratedProducts ==
    {[i \in 1..MaxSample |-> [id |-> IntV(i), name |-> pick[i]]] :
        pick \in [1..MaxSample -> {TextV(<<"p">>), NULL}]}
GeneratedOrders ==
    {[i \in 1..MaxSample |-> [id |-> IntV(i), customer_id |-> IntV(pick[i]),
                                total_amount |-> IntV(0)]] :
        pick \in [1..MaxSample -> 1..MaxSample]}

ConstructInit ==
    \* a new file, a file with the empty tables, a file with rows and rules
    /\ \/ db = <<>> /\ quality_rules = <<>>
       \/ db = CreatedTables /\ quality_rules = <<>>
       \/ db = SampleDB /\ quality_rules \in RuleTables
    /\ quality_results = <<>>
    /\ pc = [p \in Threads |-> "idle"]
    /\ rules = [p \in Threads |-> <<>>]
    /\ at = [p \in Threads |-> 1]
    /\ err = [p \in Threads |-> Details("", 0, 0, "")]
    /\ tx = [p \in Threads |-> <<>>]
    /\ results = [p \in Threads |-> <<>>]
    /\ ret = [p \in Threads |-> NoRet]
    /\ appended = [p \in Threads |-> <<>>]
    /\ lock = "none"
    /\ profile_ret = [table_name \in ProfileTables \cup ColumnTables |-> NoProfile]
    /\ elapsed = [p \in Threads |-> 0]
    /\ took = [p \in Threads |-> {}]
    /\ call = NoCall
    /\ result = NoResult
    /\ ctor = "new"
    /\ loaded = NothingLoaded
    /\ ctor_ret = Constructed

\* init_database: CREATE TABLE IF NOT EXISTS for every table, commit, close.
InitDatabase ==
    /\ ctor = "new"
    /\ db' = [name \in DOMAIN CreatedTables |->
                 IF name \in DOMAIN db THEN db[name] ELSE CreatedTables[name]]
    /\ ctor' = "load"
    /\ UNCHANGED <<engine_vars, call, result, elapsed, took, loaded, ctor_ret>>

\* load_sample_data: SELECT COUNT(*) FROM customers finds rows: close, return.
LoadReturnsEarly ==
    /\ ctor = "load"
    /\ Len(db.customers.rows) > 0
    /\ ctor' = "kept"
    /\ UNCHANGED <<db, engine_vars, call, result, elapsed, took, loaded, ctor_ret>>

\* executemany INSERT INTO customers: the connection begins its transaction.
InsertCustomers ==
    /\ ctor = "load"
    /\ Len(db.customers.rows) = 0
    /\ lock \in {"none", "load"}
    /\ \E customers \in GeneratedCustomers : loaded' = [loaded EXCEPT !.customers = customers]
    /\ lock' = "load"
    /\ ctor' = "products"
    /\ UNCHANGED <<db, quality_rules, quality_results, pc, rules, at, err, tx, results, ret,
                   appended, profile_ret, call, result, elapsed, took, ctor_ret>>

\* executemany INSERT INTO products.
InsertProducts ==
    /\ ctor = "products"
    /\ lock \in {"none", "load"}
    /\ \E products \in GeneratedProducts : loaded' = [loaded EXCEPT !.products = products]
    /\ lock' = "load"
    /\ ctor' = "orders"
    /\ UNCHANGED <<db, quality_rules, quality_results, pc, rules, at, err, tx, results, ret,
                   appended, profile_ret, call, result, elapsed, took, ctor_ret>>

\* executemany INSERT INTO orders.
InsertOrders ==
    /\ ctor = "orders"
    /\ lock \in {"none", "load"}
    /\ \E orders \in GeneratedOrders : loaded' = [loaded EXCEPT !.orders = orders]
    /\ lock' = "load"
    /\ ctor' = "rules"
    /\ UNCHANGED <<db, quality_rules, quality_results, pc, rules, at, err, tx, results, ret,
                   appended, profile_ret, call, result, elapsed, took, ctor_ret>>

\* self.setup_quality_rules(), conn.commit(), conn.close().  The INSERT of
\* setup_quality_rules, on its own connection, either inserts and commits
\* the rules, after which load_sample_data commits, or finds the write lock
\* held for the whole busy timeout and raises "database is locked": nothing
\* catches that, load_sample_data never reaches its commit, and its
\* transaction is rolled back when its connection goes away.
SetupQualityRules ==
    /\ ctor = "rules"
    /\ IF lock \in {"none", "setup"}
       THEN /\ quality_rules' =
                  quality_rules \o [i \in 1..Len(DefaultRules) |->
                                       WithId(DefaultRules[i], Len(quality_rules) + i)]
            /\ db' = [name \in DOMAIN db |->
                         [db[name] EXCEPT !.rows = CommitRows(db[name].rows, loaded[name])]]
            /\ ctor' = "constructed"
            /\ ctor_ret' = Constructed
       ELSE /\ ctor' = "raised"
            /\ ctor_ret' = [exc |-> TRUE, details |-> DatabaseIsLocked]
            /\ UNCHANGED <<db, quality_rules>>
    /\ loaded' = NothingLoaded
    /\ lock' = "none"
    /\ UNCHANGED <<quality_results, pc, rules, at, err, tx, results, ret,
                   appended, profile_ret, call, result, elapsed, took>>

ConstructNext ==
    \/ InitDatabase
    \/ LoadReturnsEarly
    \/ InsertCustomers
    \/ InsertProducts
    \/ InsertOrders
    \/ SetupQualityRules

SpecConstruct == ConstructInit /\ [][ConstructNext]_vars

(***************************************************************************)
(* Properties of a single checker call (SpecCheck).                        *)
(***************************************************************************)
Called == call # NoCall
ConfigOf(rule) == JsonLoads(rule.rule_config)
CalledValues == ColumnValues(db["t"], "c")
CalledColumn == call.column_name = "c"
NonNullCount(vals) == Cardinality({i \in 1..Len(vals) : ~IsNull(vals[i])})
NonEmptyCount(vals) ==
    Cardinality({i \in 1..Len(vals) : ~IsNull(vals[i]) /\ PyStr(vals[i]) # <<>>})

\* C1: every result a checker returns has status PASS if and only if its
\* metric_value is at most the threshold of the call, and FAIL otherwise.
C1_StatusIffWithinThreshold ==
    (Called /\ ~result.exc) =>
        /\ result.status \in {"PASS", "FAIL"}
        /\ result.status = "PASS" <=>
              \/ result.metric_value.num < call.threshold_value * result.metric_value.den
              \/ /\ result.metric_value.num = call.threshold_value * result.metric_value.den
                 /\ result.metric_value.err <= 0

\* A call returned a positive metric equal to its threshold.
C1_Witness ==
    /\ Called /\ ~result.exc
    /\ result.metric_value.num > 0
    /\ result.metric_value.num = call.threshold_value * result.metric_value.den
    /\ result.status = "PASS"

\* C7: the metric_value of every returned result lies in [0, 100].
C7_MetricInRange ==
    (Called /\ ~result.exc) =>
        /\ result.metric_value.den > 0
        /\ 0 <= result.metric_value.num
        /\ result.metric_value.num <= 100 * result.metric_value.den
        /\ result.metric_value.num = 0 => result.metric_value.err = 0
        /\ result.metric_value.num = 100 * result.metric_value.den => result.metric_value.err = 0

\* A foreign key check over a column with a NULL and an orphan returned 100%.
C7_Witness ==
    /\ Called /\ ~result.exc
    /\ call.rule_type = "foreign_key_check"
    /\ \E i \in 1..Len(CalledValues) : IsNull(CalledValues[i])
    /\ result.metric_value.num = 100 * result.metric_value.den

\* The denominator of each checker, from the column of the call.
DenominatorOf(rule_type, vals) ==
    CASE rule_type = "null_check" -> Len(vals)
      [] rule_type = "format_check" -> NonEmptyCount(vals)
      [] OTHER -> NonNullCount(vals)

\* C8: a returned result of a call whose denominator is 0 has metric_value 0
\* and status PASS, for every threshold.
C8_ZeroDenominatorPasses ==
    (Called /\ ~result.exc /\ DenominatorOf(call.rule_type, CalledValues) = 0) =>
        /\ result.metric_value.num = 0
        /\ result.status = "PASS"

\* A range check with both bounds over a column of NULLs only, threshold 0.
C8_Witness ==
    /\ Called /\ ~result.exc
    /\ call.rule_type = "range_check"
    /\ call.rule_config = "{\"min\": 0, \"max\": 120}"
    /\ call.threshold_value = 0
    /\ Len(CalledValues) > 0
    /\ NonNullCount(CalledValues) = 0
    /\ result.status = "PASS"

\* The format example: pattern ^[0-9]+$ over "123", "12a", "" and null.
FormatExampleCalled ==
    /\ db = CheckDB("TEXT", FormatExample, <<>>)
    /\ call.rule_type = "format_check"
    /\ call.rule_config = "{\"pattern\": \"^[0-9]+$\"}"

\* C10 as claimed: in the format example the denominator is 2, "12a" is not
\* counted as violating and the metric is 0%.
C10_Original ==
    FormatExampleCalled =>
        /\ ~result.exc
        /\ result.details.b = 2
        /\ result.details.a = 0
        /\ result.metric_value.num = 0

HasDigitPrefix(s) == s # <<>> /\ Head(s) \in Digits

\* C10 as amended: the denominator of a format check is the values that are
\* neither null nor the empty string; under ^[0-9]+ the numerator is the
\* values that do not start with a digit (a digit prefix followed by other
\* characters is not flagged), under ^[0-9]+$ it is the values that are not
\* digits only; in the format example the denominator is 2, "12a" is counted
\* as violating and the metric is 50%, and under ^[0-9]+ it is 0%.
C10_FormatCounts ==
    (Called /\ call.rule_type = "format_check" /\ ~result.exc
       /\ result.details.msg = "invalid format") =>
        LET vals == CalledValues
            checked == {i \in 1..Len(vals) : ~IsNull(vals[i]) /\ PyStr(vals[i]) # <<>>}
            NotDigits == {i \in checked : ~AllDigits(PyStr(vals[i]))}
            NoDigitPrefix == {i \in checked : ~HasDigitPrefix(PyStr(vals[i]))}
        IN  /\ result.details.b = Cardinality(checked)
            /\ result.metric_value.num * result.details.b
                  = 100 * result.details.a * result.metric_value.den
            /\ call.rule_config = "{\"pattern\": \"^[0-9]+$\"}" =>
                  result.details.a = Cardinality(NotDigits)
            /\ call.rule_config = "{\"pattern\": \"^[0-9]+\"}" =>
                  result.details.a = Cardinality(NoDigitPrefix)
            /\ FormatExampleCalled =>
                  /\ result.details.b = 2 /\ result.details.a = 1
                  /\ result.metric_value.num = 50 * result.metric_value.den
            /\ (db = CheckDB("TEXT", FormatExample, <<>>)
                  /\ call.rule_config = "{\"pattern\": \"^[0-9]+\"}") =>
                  /\ result.details.b = 2 /\ result.details.a = 0
                  /\ result.metric_value.num = 0

\* The format example was checked under ^[0-9]+$ and came out 1 of 2.
C10_Witness ==
    /\ FormatExampleCalled
    /\ ~result.exc
    /\ result.details.a = 1 /\ result.details.b = 2

RECURSIVE GCD(_, _)
GCD(a, b) == IF b = 0 THEN a ELSE GCD(b, a % b)
IsPowerOfTwo(n) == \E k \in 0..30 : n = 2 ^ k
\* The number num / den is a float: in lowest terms its denominator is a
\* power of two (the numerators here are far below 2^53).
Representable(num, den) == IsPowerOfTwo(den \div GCD(num, den))

\* C12: the metric_value of a null check is 100 * null_count / total_count,
\* for total_count all rows and null_count the rows that are null or the
\* empty string: it is that number whenever that number is a float; with 10
\* rows, 2 of them null or empty, and threshold 5 it is 20 and the status FAIL.
C12_NullMetricExact ==
    (Called /\ call.rule_type = "null_check" /\ ~result.exc /\ Len(CalledValues) > 0) =>
        LET total_count == Len(CalledValues)
            null_count == Cardinality({i \in 1..total_count :
                              IsNull(CalledValues[i]) \/ PyStr(CalledValues[i]) = <<>>})
            m == result.metric_value
        IN  /\ m.num * total_count = 100 * null_count * m.den
            /\ Representable(100 * null_count, total_count) => m.err = 0
            /\ (CalledValues = NullExample /\ call.threshold_value = 5) =>
                  /\ m.num = 20 * m.den /\ m.err = 0
                  /\ result.status = "FAIL"

\* The non-null values of the called column are integers.
IntegersOnly(vals) == \A i \in 1..Len(vals) : vals[i].t \in {"null", "int"}
\* The integers of vals that are less than lo, or greater than hi.
BelowCount(vals, lo) == Cardinality({i \in 1..Len(vals) : vals[i].t = "int" /\ vals[i].n < lo})
AboveCount(vals, hi) == Cardinality({i \in 1..Len(vals) : vals[i].t = "int" /\ vals[i].n > hi})

\* C13: the denominator of a range check is the non-null values; over a
\* column of integers its numerator is the values less than min when min is
\* given plus the values greater than max when max is given, a value equal to
\* a bound not counted; with neither bound the result is metric 0 and PASS;
\* with min 0 and max 120 over 25, 150, -5, 40 the metric is 50%.
C13_RangeCounts ==
    (Called /\ call.rule_type = "range_check" /\ ~result.exc) =>
        LET vals == CalledValues
            m == result.metric_value
            config == call.rule_config
            expected ==
                CASE config = "{\"min\": 0, \"max\": 120}" -> BelowCount(vals, 0) + AboveCount(vals, 120)
                  [] config = "{\"min\": 0}" -> BelowCount(vals, 0)
                  [] config = "{\"max\": 120}" -> AboveCount(vals, 120)
                  [] config = "{\"min\": 120, \"max\": 0}" ->
                       Cardinality({i \in 1..Len(vals) : vals[i].t = "int"})
                  [] OTHER -> 0
        IN  /\ config = "{}" =>
                  /\ m.num = 0 /\ result.status = "PASS"
                  /\ result.details.msg = "No range specified"
            /\ config # "{}" =>
                  /\ result.details.b = NonNullCount(vals)
                  /\ m.num * result.details.b = 100 * result.details.a * m.den
                  /\ IntegersOnly(vals) => result.details.a = expected
            /\ (vals = RangeExample /\ config = "{\"min\": 0, \"max\": 120}") =>
                  /\ result.details.a = 2 /\ result.details.b = 4
                  /\ m.num = 50 * m.den /\ m.err = 0
            /\ (vals = BoundsExample /\ config = "{\"min\": 0, \"max\": 120}") =>
                  /\ result.details.a = 2 /\ result.details.b = 4

\* The range example was checked with both bounds and came out 2 of 4.
C13_Witness ==
    /\ Called /\ call.rule_type = "range_check" /\ ~result.exc
    /\ CalledValues = RangeExample
    /\ call.rule_config = "{\"min\": 0, \"max\": 120}"
    /\ result.details.a = 2 /\ result.details.b = 4

\* The positions of vals that repeat a non-null value of an earlier position.
ExtraOccurrences(vals) ==
    {i \in 1..Len(vals) : ~IsNull(vals[i]) /\ \E j \in 1..(i - 1) : vals[j] = vals[i]}

\* C14: the metric of a uniqueness check is 100 * (n - d) / n for n the
\* non-null values and d the distinct non-null values: n - d is the number
\* of occurrences of a value after its first; over a, a, a, b, c the metric
\* is 40%.
C14_UniquenessMetric ==
    (Called /\ call.rule_type = "uniqueness_check" /\ ~result.exc) =>
        LET vals == CalledValues
            n == NonNullCount(vals)
            m == result.metric_value
        IN  /\ result.details.a = Cardinality(ExtraOccurrences(vals))
            /\ n > 0 => m.num * n = 100 * result.details.a * m.den
            /\ vals = UniquenessExample =>
                  /\ result.details.a = 2
                  /\ m.num = 40 * m.den /\ m.err = 0

\* The uniqueness example was checked and came out with 2 duplicates.
C14_Witness ==
    /\ Called /\ call.rule_type = "uniqueness_check" /\ ~result.exc
    /\ CalledValues = UniquenessExample
    /\ result.details.a = 2

\* A source value equals the id of a reference row.
EqualsId(v, id) ==
    /\ id.t = "int"
    /\ \/ v.t = "int" /\ v.n = id.n
       \/ v.t = "text" /\ LooksInteger(v.s) /\ TextToInt(v.s) = id.n
ReferenceIds == ColumnValues(db["customers"], "id")
\* The source rows with a non-null value that equals the id of no reference row.
Orphans(vals) ==
    {i \in 1..Len(vals) :
        ~IsNull(vals[i]) /\ \A j \in 1..Len(ReferenceIds) : ~EqualsId(vals[i], ReferenceIds[j])}

\* C15: the denominator of a foreign key check is the source rows with a
\* non-null value and its numerator is those of them whose value equals the
\* reference column of no reference row, each counted once whatever
\* duplicates and nulls the reference column holds; 1, 2, 3, 99 against the
\* ids 1, 2, 3 give 25%.
C15_OrphanCounts ==
    (Called /\ call.rule_type = "foreign_key_check" /\ ~result.exc) =>
        LET vals == CalledValues
            n == NonNullCount(vals)
            m == result.metric_value
        IN  /\ result.details.a = Cardinality(Orphans(vals))
            /\ n > 0 => m.num * n = 100 * result.details.a * m.den
            /\ n = 0 => m.num = 0
            /\ (vals = ForeignKeyExample /\ ReferenceIds = ForeignKeyExampleIds) =>
                  /\ result.details.a = 1
                  /\ m.num = 25 * m.den /\ m.err = 0
            /\ (vals = DuplicateIdsExample /\ ReferenceIds = DuplicateIds) =>
                  /\ result.details.a = 2
                  /\ m.num = 50 * m.den /\ m.err = 0

\* A foreign key check over reference ids with a duplicate and a null found
\* the two orphans among four non-null source values.
C15_Witness ==
    /\ Called /\ call.rule_type = "foreign_key_check" /\ ~result.exc
    /\ CalledValues = DuplicateIdsExample /\ ReferenceIds = DuplicateIds
    /\ result.details.a = 2

\* The database reports the identifier as existing.
Exists(id) ==
    /\ id.table \in DOMAIN db
    /\ id.kind = "column" => id.name \in ColumnNames(db[id.table])

\* C18: every identifier of a query a checker call executes (rule table,
\* rule column, reference table, reference column) is a name the database
\* reports as existing: an identifier that is not is in no executed query.
C18_IdentifiersValidated ==
    Called =>
        \A id \in ExecutedIdentifiers(db, call.rule_type, call.table_name, call.column_name,
                                      ConfigOf(call).reference_table,
                                      ConfigOf(call).reference_column) : Exists(id)

(***************************************************************************)
(* Properties of run_quality_checks and profile_data (Spec).               *)
(***************************************************************************)
\* The call of thread p ended by returning its list.
Completed(p) == pc[p] = "done" /\ ret[p].returned
\* The call of thread p ended, by a return or by an exception that escaped.
Ended(p) == pc[p] = "done"

Recognized(rule) == rule.rule_type \in RuleTypes
\* The checker of the rule raises on db.
CheckerRaises(rule) ==
    /\ ~ConfigOf(rule).err
    /\ Recognized(rule)
    /\ Dispatch(db, rule, ConfigOf(rule)).exc
\* The configuration of the rule lacks a key its kind requires.
MissingKey(rule) ==
    /\ ~ConfigOf(rule).err
    /\ \/ rule.rule_type = "format_check" /\ ConfigOf(rule).pattern = PyNone
       \/ rule.rule_type = "foreign_key_check"
            /\ (ConfigOf(rule).reference_table = PyNone
                  \/ ConfigOf(rule).reference_column = PyNone)

RowsOf(rows, rule_id) == {i \in 1..Len(rows) : rows[i].rule_id = rule_id}
IsSegment(sub, seq) ==
    \E from \in 0..(Len(seq) - Len(sub)) : SubSeq(seq, from + 1, from + Len(sub)) = sub
IsPrefix(a, b) == Len(a) <= Len(b) /\ SubSeq(b, 1, Len(a)) = a
Ascending(rows) == \A i, j \in 1..Len(rows) : i < j => rows[i].rule_id < rows[j].rule_id

\* The rule at index k of the fetched list of p gets its ERROR row in what
\* the call of p added to quality_results, and every later rule of a
\* recognized kind has a row there too.
ErrorIsolated(p, k) ==
    LET rule == rules[p][k] IN
    /\ \E i \in RowsOf(appended[p], rule.rule_id) :
          /\ appended[p][i].status = "ERROR"
          /\ appended[p][i].metric_value.num = 0
          /\ appended[p][i].details = Dispatch(db, rule, ConfigOf(rule)).details
    /\ IsSegment(appended[p], quality_results)
    /\ at[p] > Len(rules[p])
    /\ \A j \in (k + 1)..Len(rules[p]) :
          Recognized(rules[p][j]) => RowsOf(appended[p], rules[p][j].rule_id) # {}

C3_ReturnedIsPersisted ==
    \A p \in Threads :
        Completed(p) =>
            /\ Len(ret[p].value) = Len(appended[p])
            /\ \A i \in 1..Len(appended[p]) :
                  /\ i <= Len(ret[p].value)
                  /\ ret[p].value[i].rule_id = appended[p][i].rule_id
                  /\ ret[p].value[i].status = appended[p][i].status
                  /\ ret[p].value[i].metric_value = appended[p][i].metric_value
                  /\ ret[p].value[i].details = appended[p][i].details

\* C4: a rule of an unrecognized kind, or one that lacks a key its kind
\* requires, gets no row and no returned entry in a completed call.
C4_MisconfiguredSkipped ==
    \A p \in Threads :
        Completed(p) =>
            \A k \in 1..Len(rules[p]) :
                (~Recognized(rules[p][k]) \/ MissingKey(rules[p][k])) =>
                    /\ RowsOf(appended[p], rules[p][k].rule_id) = {}
                    /\ RowsOf(ret[p].value, rules[p][k].rule_id) = {}

\* C5: a completed call returns and persists its results in strictly
\* ascending rule_id order, whatever order the SELECT yielded.
C5_AscendingRuleId ==
    \A p \in Threads :
        Completed(p) => Ascending(ret[p].value) /\ Ascending(appended[p])

\* C6: a completed call adds exactly one row for every active rule of a
\* recognized kind and none for an inactive rule.
C6_OneRowPerActiveRule ==
    \A p \in Threads :
        Completed(p) =>
            \A k \in 1..Len(quality_rules) :
                LET rule == quality_rules[k]
                    n == Cardinality(RowsOf(appended[p], rule.rule_id))
                IN  /\ (rule.is_active /\ Recognized(rule)) => n = 1
                    /\ ~rule.is_active => n = 0
                    /\ IsSegment(appended[p], quality_results)

\* A completed call over an inactive rule and an active rule whose checker
\* raised.
C6_Witness ==
    \E p \in Threads :
        /\ Completed(p)
        /\ \E k \in 1..Len(quality_rules) : ~quality_rules[k].is_active
        /\ \E k \in 1..Len(quality_rules) :
              /\ CheckerRaises(quality_rules[k])
              /\ Cardinality(RowsOf(appended[p], quality_rules[k].rule_id)) = 1

\* C9: no step of run_quality_checks or profile_data changes a monitored
\* table or a rule, and quality_results only grows at its end: the rows it
\* had stay as they were; a profile_data call leaves it as it was.
C9_AppendOnly ==
    [][/\ db' = db
       /\ quality_rules' = quality_rules
       /\ IsPrefix(quality_results, quality_results')
       /\ profile_ret' # profile_ret => quality_results' = quality_results]_vars

\* Two calls have each added rows to quality_results, and a table was profiled.
C9_Witness ==
    /\ \A p \in Threads : Completed(p) /\ appended[p] # <<>>
    /\ Len(quality_results) = Len(appended["w1"]) + Len(appended["w2"])
    /\ ~profile_ret["customers"].exc /\ profile_ret["customers"].profiles # <<>>

(***************************************************************************)
(* Properties of a profile_data call on one column (SpecProfile).          *)
(***************************************************************************)
Profiled == profile_ret["t"] # NoProfile
\* The profile of the column c of t.
ProfileOfC == profile_ret["t"].profiles[1]

\* C11: the profile of a column has null_count (the values that are null or
\* the empty string) at most total_count, and unique_count at most
\* total_count - null_count.
C11_CountsBounded ==
    Profiled =>
        /\ ProfileOfC.null_count =
              Cardinality({i \in 1..Len(CalledValues) :
                              IsNull(CalledValues[i]) \/ PyStr(CalledValues[i]) = <<>>})
        /\ ProfileOfC.null_count <= ProfileOfC.total_count
        /\ ProfileOfC.unique_count <= ProfileOfC.total_count - ProfileOfC.null_count

\* The non-null values of the profiled column.
ProfiledNonNull == SelectSeq(CalledValues, LAMBDA v : ~IsNull(v))
\* min_value, max_value, avg_value and std_dev of the profile are None.
StatisticsUnset(p) ==
    IsNull(p.min_value) /\ IsNull(p.max_value) /\ p.avg_value.none /\ p.std_dev.none
\* A sequence of integers has the least element lo and the greatest hi.
IsMinMax(ns, lo, hi) ==
    /\ \E i \in 1..Len(ns) : ns[i] = lo
    /\ \E i \in 1..Len(ns) : ns[i] = hi
    /\ \A i \in 1..Len(ns) : lo <= ns[i] /\ ns[i] <= hi

\* C16: the profile of a column of a numeric declared type (DECIMAL(10,2)
\* included) with a non-null value has min, max, mean and standard deviation
\* set from the values; that of a TEXT column with a non-null value has min,
\* max and mean set from the string lengths; only the profile of a column of
\* another declared type has the four unset.
C16_StatisticsByType ==
    (Profiled /\ ProfiledNonNull # <<>>) =>
        LET p == ProfileOfC
            vals == ProfiledNonNull
            lengths == [i \in 1..Len(vals) |-> Len(PyStr(vals[i]))]
        IN  /\ p.data_type \in NumericTypes =>
                  /\ ~IsNull(p.min_value) /\ ~IsNull(p.max_value)
                  /\ ~p.avg_value.none /\ ~p.std_dev.none
                  /\ IntegersOnly(vals) =>
                        /\ IsMinMax([i \in 1..Len(vals) |-> vals[i].n], p.min_value.n, p.max_value.n)
                        /\ p.avg_value.num * Len(vals)
                              = SumSeq([i \in 1..Len(vals) |-> vals[i].n]) * p.avg_value.den
            /\ p.data_type = "TEXT" =>
                  /\ ~IsNull(p.min_value) /\ ~IsNull(p.max_value) /\ ~p.avg_value.none
                  /\ IsMinMax(lengths, p.min_value.n, p.max_value.n)
                  /\ p.avg_value.num * Len(vals) = SumSeq(lengths) * p.avg_value.den
            /\ StatisticsUnset(p) => p.data_type \notin NumericTypes \cup {"TEXT"}

Escaped(p) == pc[p] = "done" /\ ret[p].exc
OtherThread(p) == CHOOSE q \in Threads : q # p

\* C19: when a call ends with an exception that reaches the caller (the
\* configuration of a rule does not parse, or the INSERT of the except branch
\* fails), no row the call inserted is in quality_results, and the rows the
\* other call committed are all there.
C19_EscapedPersistsNothing ==
    \A p \in Threads :
        Escaped(p) =>
            /\ tx[p] = <<>>
            /\ appended[p] = <<>>
            /\ quality_results = appended[OtherThread(p)]

\* A call ended with an exception after it had inserted the row of an
\* earlier rule (the list results holds its entry), and quality_results does
\* not hold the row.
C19_Witness ==
    \E p \in Threads :
        /\ Escaped(p)
        /\ results[p] # <<>>
        /\ ret[p].details = JSONDecodeError
        /\ \A i \in 1..Len(quality_results) :
              quality_results[i].rule_id # results[p][1].rule_id

\* The configuration text of every rule parses.
ConfigsParse == \A k \in 1..Len(quality_rules) : ~ConfigOf(quality_rules[k]).err

\* C20: whether the two calls overlap or not, each of them completes (no
\* configuration text stops it), adds exactly one row for every rule of a
\* recognized kind it evaluated, and its rows are consecutive rows of
\* quality_results, not interleaved with the rows of the other call.
C20_OverlappingCallsComplete ==
    ConfigsParse =>
        \A p \in Threads :
            Ended(p) =>
                /\ Completed(p)
                /\ \A k \in 1..Len(rules[p]) :
                      Recognized(rules[p][k]) =>
                          Cardinality(RowsOf(appended[p], rules[p][k].rule_id)) = 1
                /\ IsSegment(appended[p], quality_results)

(***************************************************************************)
(* Properties of the time a call of run_quality_checks takes (SpecTimed).  *)
(***************************************************************************)
\* The timeouts a caller may ask for that a checker call of the model can
\* run beyond.
Timeouts == 1..(MaxElapsed - 1)
NotesTimeout(details) == details.msg = "timeout"
\* The rows the call of thread p inserted, committed or not.
Inserted(p) == tx[p] \o appended[p]

\* C21: whatever timeout the caller asks for, a checker call that ran for
\* longer than the timeout is recorded as a row with status ERROR whose
\* details note the timeout: no row of such a rule carries the outcome of
\* the late checker call, and the call of run_quality_checks, once it has
\* ended, has such a row for the rule.
C21_TimeoutRecorded ==
    \A p \in Callers, timeout \in Timeouts :
        \A t \in took[p] :
            t.elapsed > timeout =>
                /\ \A i \in RowsOf(Inserted(p), t.rule_id) :
                      /\ Inserted(p)[i].status = "ERROR"
                      /\ NotesTimeout(Inserted(p)[i].details)
                /\ Completed(p) => RowsOf(Inserted(p), t.rule_id) # {}

(***************************************************************************)
(* Properties of the construction of DataQualityMonitor (SpecConstruct).   *)
(***************************************************************************)
\* C22: the construction on a database without sample rows does not end
\* with an exception; setup_quality_rules is not about to insert while the
\* connection of load_sample_data holds the write lock for uncommitted
\* rows; and once the construction has gone through load_sample_data the
\* generated rows of the three tables and the 13 default rules are committed.
C22_ConstructionCompletes ==
    /\ ctor # "raised"
    /\ ctor = "rules" => (lock # "load" /\ loaded = NothingLoaded)
    /\ ctor = "constructed" =>
          /\ Len(quality_rules) = 13
          /\ \A name \in DOMAIN db : Len(db[name].rows) = MaxSample
====
